---- MODULE Spec2Model ----
(***************************************************************************)
(* Model of cursor-analyzer/src/main.rs: the video worker thread           *)
(* (VideoWorker), the command and event channels that connect it to the    *)
(* control thread (VideoApp), the metadata prober (probe_file), the        *)
(* decoder processes the worker spawns, kills and reaps, and the marker    *)
(* detector (find_position).  Spec is the worker and its channels;         *)
(* FindSpec is one call of find_position on a buffer.                      *)
(*                                                                         *)
(* Numbers.  TLC integers are 32 bit signed.  A u32 of the program is an   *)
(* Int here and the inputs are drawn below 2^31; the one computation that  *)
(* can leave the u32 range, width * height * 4, is carried out in 4-byte   *)
(* units modulo 2^30 (FrameWords), which is the u32 product modulo 2^32.   *)
(* A decoder's output is shorter than 2^31 bytes.                          *)
(***************************************************************************)
EXTENDS Integers, Sequences, FiniteSets, TLC

\* ------------------------------------------------------------------ bounds
\* commands the control thread sends in one run
MaxCmds == 3
\* whole frames a decoder process writes at most
MaxFrames == 2
\* bytes of a trailing partial frame, when the decoder's output ends in one
PartialBytes == 7

\* ------------------------------------------------------- program constants
\* \d{3,} in res_regex: the least number of digits of a width or a height
MinDigits == 3
\* bytes per pixel: the factor 4 of frame_size
BytesPerPixel == 4

None == "None"

\* ------------------------------------------------------------------ inputs
\* File paths the control thread can pick: a small clip, a clip whose frames
\* are larger than 2^32 bytes, a file the decoder finds no usable video stream
\* in, and a path that holds a byte that is not valid UTF-8, so that
\* Path::to_str returns None for it.
NonUtf8Path == "clip_\\xFF.mp4"
Paths == {"small.mp4", "huge.mp4", "notes.txt", NonUtf8Path}

\* Path::to_str
to_str(path) == IF path = NonUtf8Path THEN None ELSE path

\* Seek targets (f64 seconds)
SeekTimes == {0, 5}

Pow2(n) == 2 ^ n

\* The decoder's diagnostic text, as the two regexes see it: dur is the three
\* captures of dur_regex and the fraction digits (<< >> when no Duration line
\* matches), video the digit strings left and right of the last "x" of a
\* "Video:" line (<< >> when the text has none).
NoDuration == << >>
NoVideo == << >>
\* What the decoder can print for each file.
StderrTexts(path) ==
    CASE path = "small.mp4" ->
           { [dur |-> NoDuration, video |-> << <<1, 2, 8>>, <<1, 0, 0>> >>] }
      [] path = "huge.mp4" ->
           { [dur |-> <<0, 1, 30, <<5, 0>>>>,
              video |-> << <<6, 5, 5, 3, 6>>, <<6, 5, 5, 3, 6>> >>] }
      [] OTHER ->
           { [dur |-> <<0, 0, 10, <<0>>>>, video |-> NoVideo],
             [dur |-> NoDuration, video |-> << <<0, 0, 0>>, <<1, 0, 0>> >>],
             [dur |-> NoDuration, video |-> << <<9, 9>>, <<1, 0, 0>> >>],
             [dur |-> NoDuration,
              video |-> << <<1, 0, 0>>, <<9, 9, 9, 9, 9, 9, 9, 9, 9, 9, 9>> >>] }

\* ------------------------------------------------------------ probe_file
RECURSIVE StripZeros(_)
StripZeros(ds) ==
    IF ds # << >> /\ Head(ds) = 0 THEN StripZeros(Tail(ds)) ELSE ds

RECURSIVE Horner(_, _)
Horner(ds, acc) ==
    IF ds = << >> THEN acc ELSE Horner(Tail(ds), acc * 10 + Head(ds))

\* the digits of u32::MAX
U32MaxDigits == <<4, 2, 9, 4, 9, 6, 7, 2, 9, 5>>

RECURSIVE DigitsLeq(_, _)
DigitsLeq(a, b) ==
    \/ a = << >>
    \/ Head(a) < Head(b)
    \/ Head(a) = Head(b) /\ DigitsLeq(Tail(a), Tail(b))

\* str::parse::<u32>().unwrap_or(0) on a string of decimal digits: the value,
\* or 0 when it does not fit 32 bits.
parse_u32(ds) ==
    LET s == StripZeros(ds)
    IN  IF Len(s) > Len(U32MaxDigits) THEN 0
        ELSE IF Len(s) = Len(U32MaxDigits) /\ ~DigitsLeq(s, U32MaxDigits) THEN 0
        ELSE Horner(s, 0)

\* mutant of ResMatches: a text without a Duration line is refused
ResMatches_needs_duration(text) ==
    /\ text.dur # NoDuration
    /\ text.video # NoVideo
    /\ Len(text.video[1]) >= MinDigits
    /\ Len(text.video[2]) >= MinDigits

\* res_regex matches only numbers of at least MinDigits digits
ResMatches(text) ==
    /\ text.video # NoVideo
    /\ Len(text.video[1]) >= MinDigits
    /\ Len(text.video[2]) >= MinDigits

ProbeWidth(text) == IF ResMatches(text) THEN parse_u32(text.video[1]) ELSE 0
ProbeHeight(text) == IF ResMatches(text) THEN parse_u32(text.video[2]) ELSE 0

RECURSIVE StripTrailingZeros(_)
StripTrailingZeros(ds) ==
    IF ds # << >> /\ ds[Len(ds)] = 0
    THEN StripTrailingZeros(SubSeq(ds, 1, Len(ds) - 1))
    ELSE ds

\* duration = h * 3600 + m * 60 + s, as whole seconds and the digits of the
\* fraction (a float has no trailing zeros); 0.0 when no Duration line matches
ProbeDuration(text) ==
    IF text.dur = NoDuration THEN <<0, << >> >>
    ELSE <<text.dur[1] * 3600 + text.dur[2] * 60 + text.dur[3],
           StripTrailingZeros(text.dur[4])>>

\* mutant of ProbeAccepts: one positive dimension is enough
ProbeAccepts_either(w, h) == w > 0 \/ h > 0

\* the final test of probe_file
ProbeAccepts(w, h) == w > 0 /\ h > 0

\* probe_file once the decoder ran and its diagnostics were captured
probe_file(text) ==
    LET w == ProbeWidth(text)
        h == ProbeHeight(text)
    IN  IF ProbeAccepts(w, h)
        THEN [ok |-> TRUE, duration |-> ProbeDuration(text), width |-> w, height |-> h]
        ELSE [ok |-> FALSE, duration |-> <<0, << >> >>, width |-> 0, height |-> 0]

\* ------------------------------------------------------------ frame size
\* width * height * 4 leaves the u32 range
Overflows(w, h) == w > 0 /\ h > (Pow2(30) - 1) \div w

\* the low and the high 15-bit half of a number below 2^31
Lo(x) == x % Pow2(15)
Hi(x) == x \div Pow2(15)

\* (w * h) mod 2^30: the u32 value of width * height * 4, counted in 4-byte units
FrameWords(w, h) ==
    LET cross == (Lo(Hi(w) * Lo(h)) + Lo(Lo(w) * Hi(h))) % Pow2(15)
    IN  (cross * Pow2(15) + Lo(w) * Lo(h)) % Pow2(30)

\* RgbaImage::from_raw (image crate): Some exactly when the buffer holds at
\* least width * height * 4 bytes; len is a buffer length below 2^31
from_raw(w, h, len) == ~Overflows(w, h) /\ w * h * BytesPerPixel <= len

\* --------------------------------------------------------------- messages
LoadFile(path) == [type |-> "LoadFile", path |-> path, time |-> 0]
Seek(t) == [type |-> "Seek", path |-> None, time |-> t]
Step == [type |-> "Step", path |-> None, time |-> 0]
Play == [type |-> "Play", path |-> None, time |-> 0]
Pause == [type |-> "Pause", path |-> None, time |-> 0]

\* enum AppCommand, over the inputs of the model
AppCommand ==
    {LoadFile(p) : p \in Paths} \cup {Seek(t) : t \in SeekTimes} \cup {Step, Play, Pause}

\* a command on the channel, with the position it was sent at
Numbered(c, n) == [type |-> c.type, path |-> c.path, time |-> c.time, id |-> n]

\* the worker holds no command: it is between two iterations of its loop
NoCommand == [type |-> None, path |-> None, time |-> 0, id |-> 0]

\* enum AppEvent.  cmd is the number of the command the worker was executing
\* when it sent the event; from and pid name the bytes of a frame: the frame
\* holds width * height * 4 bytes of process pid's output, from offset from on.
Metadata(n, dur, w, h) ==
    [type |-> "Metadata", cmd |-> n, duration |-> dur, width |-> w, height |-> h,
     from |-> 0, pid |-> 0, msg |-> None]
FrameReady(n, w, h, pid, from) ==
    [type |-> "FrameReady", cmd |-> n, duration |-> <<0, << >> >>, width |-> w,
     height |-> h, from |-> from, pid |-> pid, msg |-> None]
Error(n, msg) ==
    [type |-> "Error", cmd |-> n, duration |-> <<0, << >> >>, width |-> 0, height |-> 0,
     from |-> 0, pid |-> 0, msg |-> msg]

\* ------------------------------------------------------------------ state
VARIABLES
    cmd_queue,        \* the command channel: commands sent and not yet received
    sent,             \* how many commands the control thread has sent
    sender_alive,     \* cmd_tx exists (VideoApp is not dropped)
    pc,               \* where the worker thread is
    cmd,              \* run: the command being executed (NoCommand while in recv)
    cmd_no,           \* how many commands the worker has received
    child,            \* start_ffmpeg: the process taken out of current_process
    current_process,  \* VideoWorker.current_process: a pid, 0 for None
    current_reader,   \* VideoWorker.current_reader: the pid it reads from, 0 for None
    reader_pos,       \* bytes of that process's output consumed so far
    current_file,     \* VideoWorker.current_file
    width,            \* VideoWorker.width
    height,           \* VideoWorker.height
    duration,         \* VideoWorker.duration
    procs,            \* every decoder process spawned by start_ffmpeg, by pid
    events,           \* the event channel: every event sent, in order
    data,             \* find_position: the buffer it is called on
    data_width,       \* find_position: its width argument
    position          \* find_position: what the call returned (Pending before it)

vars == <<cmd_queue, sent, sender_alive, pc, cmd, cmd_no, child, current_process,
          current_reader, reader_pos, current_file, width, height, duration, procs,
          events, data, data_width, position>>

detector == <<data, data_width, position>>

worker == <<pc, cmd, cmd_no, child, current_process, current_reader, reader_pos,
            current_file, width, height, duration>>
session == <<current_file, width, height, duration>>
stream == <<current_process, current_reader, reader_pos>>

\* Option<[f32; 2]>, and the two other things a call can be: not made yet, and
\* ended by a panic
Some(x, y) == [kind |-> "Some", x |-> x, y |-> y]
NoPosition == [kind |-> "None", x |-> 0, y |-> 0]
Pending == [kind |-> "Pending", x |-> 0, y |-> 0]
Panicked == [kind |-> "Panicked", x |-> 0, y |-> 0]

\* VideoApp::new and VideoWorker::new
WorkerInit ==
    /\ cmd_queue = << >>
    /\ sent = 0
    /\ sender_alive = TRUE
    /\ pc = "recv"
    /\ cmd = NoCommand
    /\ cmd_no = 0
    /\ child = 0
    /\ current_process = 0
    /\ current_reader = 0
    /\ reader_pos = 0
    /\ current_file = None
    /\ width = 0
    /\ height = 0
    /\ duration = <<0, << >> >>
    /\ procs = << >>
    /\ events = << >>

Init ==
    /\ WorkerInit
    /\ data = << >>
    /\ data_width = 0
    /\ position = Pending

\* ------------------------------------------------------- decoder processes
\* A process is running, then a zombie (it exited or was killed and is still
\* in the process table), then reaped (waited for).  args_ss is the value of
\* its -ss argument (<< >> without one), out the bytes it writes to its
\* standard output before it ends, by the number of the command it was
\* spawned for.
Running(p) == procs[p].state = "running"
Unreaped(p) == procs[p].state # "reaped"
Pids == DOMAIN procs

\* the output lengths of a decoder spawned for frames of w x h pixels: no
\* frame (the start lies past the end of the clip) or MaxFrames whole frames,
\* with or without a trailing partial frame.  An output is shorter than 2^31
\* bytes: when a frame is larger than that, it is shorter than one frame.
StreamLengths(w, h) ==
    IF Overflows(w, h) THEN {0, PartialBytes}
    ELSE {k * w * h * BytesPerPixel + r : k \in {0, MaxFrames}, r \in {0, PartialBytes}}

\* Child::kill: SIGKILL ends a running process; a zombie stays one
kill(ps, p) ==
    IF ps[p].state = "running" THEN [ps EXCEPT ![p].state = "zombie"] ELSE ps

\* mutant of wait: the old process is killed and never waited for
wait_skipped(ps, p) == ps

\* Child::wait: returns once the process has ended, and reaps it
wait(ps, p) == [ps EXCEPT ![p].state = "reaped"]

\* the -ss argument of start_ffmpeg
SeekArgs(start_time) == IF start_time > 0 THEN <<start_time>> ELSE << >>

\* -------------------------------------------------------- control thread
\* VideoApp: cmd_tx.send(c).  The result is ignored: once the worker is gone
\* the command is dropped.
WorkerGone == pc \in {"exited", "panicked"}

SendCommand(c) ==
    /\ sender_alive
    /\ sent < MaxCmds
    /\ sent' = sent + 1
    /\ cmd_queue' = IF WorkerGone THEN cmd_queue
                    ELSE Append(cmd_queue, Numbered(c, sent + 1))
    /\ UNCHANGED <<sender_alive, worker, procs, events>>
    /\ UNCHANGED detector

\* VideoApp is dropped when the window closes: cmd_tx goes away
DropSender ==
    /\ sender_alive
    /\ sender_alive' = FALSE
    /\ UNCHANGED <<cmd_queue, sent, worker, procs, events>>
    /\ UNCHANGED detector

\* ------------------------------------------------------- VideoWorker::run
\* mutant of Dispatch: Step restarts the decoder, as Seek does
Dispatch_step_restarts(c) ==
    CASE c.type = "LoadFile" -> "load_file"
      [] c.type \in {"Step", "Seek"} -> "start_ffmpeg"
      [] OTHER -> "recv"

\* the position a command leads to
Dispatch(c) ==
    CASE c.type = "LoadFile" -> "load_file"
      [] c.type = "Step" -> "read_next_frame"
      [] c.type = "Seek" -> "start_ffmpeg"
      [] OTHER -> "recv"

\* mutant of NextIndex: the newest command is handed out first
NextIndex_newest(q) == Len(q)

\* which queued command rx.recv() hands out: the oldest
NextIndex(q) == 1

Remove(q, i) == SubSeq(q, 1, i - 1) \o SubSeq(q, i + 1, Len(q))

\* the worker moves on to position to; back in recv the command is dropped
Goto(to) ==
    /\ pc' = to
    /\ cmd' = IF to = "recv" THEN NoCommand ELSE cmd

\* rx.recv() returns Ok(cmd)
RecvCommand ==
    /\ pc = "recv"
    /\ cmd_queue # << >>
    /\ LET i == NextIndex(cmd_queue)
           to == Dispatch(cmd_queue[i])
       IN  /\ cmd' = IF to = "recv" THEN NoCommand ELSE cmd_queue[i]
           /\ cmd_queue' = Remove(cmd_queue, i)
           /\ pc' = to
    /\ cmd_no' = cmd_no + 1
    /\ UNCHANGED <<sent, sender_alive, child, stream, session, procs, events>>
    /\ UNCHANGED detector

\* rx.recv() returns Err: the channel is empty and every sender is gone
RecvDisconnected ==
    /\ pc = "recv"
    /\ cmd_queue = << >>
    /\ ~sender_alive
    /\ pc' = "exited"
    /\ UNCHANGED <<cmd_queue, sent, sender_alive, cmd, cmd_no, child, stream, session,
                   procs, events>>
    /\ UNCHANGED detector

\* ------------------------------------------------- VideoWorker::load_file
\* mutant of AfterProbeError: the Err arm falls through to the start
AfterProbeError_falls_through == "start_ffmpeg"

\* where load_file goes after the Err arm: it returns
AfterProbeError == "recv"

\* mutant of FailedLoadSession: a failed load clears the session
FailedLoadSession_cleared ==
    /\ current_file' = None
    /\ width' = 0
    /\ height' = 0
    /\ duration' = <<0, << >> >>

\* what the Err arm of load_file does to the stored path, width, height and
\* duration: nothing
FailedLoadSession == UNCHANGED session

\* probe_file: path.to_str().unwrap() panics on a path that is not UTF-8;
\* the panic unwinds the worker thread
ProbePanics ==
    /\ pc = "load_file"
    /\ to_str(cmd.path) = None
    /\ pc' = "panicked"
    /\ UNCHANGED <<cmd_queue, sent, sender_alive, cmd, cmd_no, child, stream, session,
                   procs, events>>
    /\ UNCHANGED detector

\* probe_file: the decoder cannot be spawned or waited for (map_err ... ?);
\* load_file sends the error
ProbeSpawnFails ==
    /\ pc = "load_file"
    /\ to_str(cmd.path) # None
    /\ events' = Append(events, Error(cmd_no, "probe: io error"))
    /\ Goto(AfterProbeError)
    /\ UNCHANGED <<cmd_queue, sent, sender_alive, cmd_no, child, stream, session, procs>>
    /\ UNCHANGED detector

\* probe_file: the decoder ran and wrote text to its error stream; load_file
\* stores the result and sends Metadata, or sends the error
ProbeRuns(text) ==
    /\ pc = "load_file"
    /\ to_str(cmd.path) # None
    /\ LET r == probe_file(text)
       IN  IF r.ok
           THEN /\ duration' = r.duration
                /\ width' = r.width
                /\ height' = r.height
                /\ current_file' = cmd.path
                /\ events' = Append(events, Metadata(cmd_no, r.duration, r.width, r.height))
                /\ Goto("start_ffmpeg")
           ELSE /\ events' = Append(events, Error(cmd_no, "Could not parse video metadata"))
                /\ Goto(AfterProbeError)
                /\ FailedLoadSession
    /\ UNCHANGED <<cmd_queue, sent, sender_alive, cmd_no, child, stream, procs>>
    /\ UNCHANGED detector

\* ---------------------------------------------- VideoWorker::start_ffmpeg
\* mutant of start_time: seek restarts the decoder at the beginning
start_time_zero == IF cmd.type = "Seek" THEN 0 ELSE 0

\* the start_time argument: 0.0 from load_file, the target from seek
start_time == IF cmd.type = "Seek" THEN cmd.time ELSE 0

\* current_process.take() is Some(child): child.kill()
StartKill ==
    /\ pc = "start_ffmpeg"
    /\ current_process # 0
    /\ child' = current_process
    /\ current_process' = 0
    /\ procs' = kill(procs, current_process)
    /\ pc' = "start_wait"
    /\ UNCHANGED <<cmd_queue, sent, sender_alive, cmd, cmd_no, current_reader, reader_pos,
                   session, events>>
    /\ UNCHANGED detector

\* child.wait(), then child goes out of scope
StartWait ==
    /\ pc = "start_wait"
    /\ procs' = wait(procs, child)
    /\ child' = 0
    /\ pc' = "spawn"
    /\ UNCHANGED <<cmd_queue, sent, sender_alive, cmd, cmd_no, stream, session, events>>
    /\ UNCHANGED detector

\* current_process.take() is None
StartNoProcess ==
    /\ pc = "start_ffmpeg"
    /\ current_process = 0
    /\ pc' = "spawn"
    /\ UNCHANGED <<cmd_queue, sent, sender_alive, cmd, cmd_no, child, stream, session,
                   procs, events>>
    /\ UNCHANGED detector

\* current_reader = None; current_file is None: nothing is spawned
SpawnSkipped ==
    /\ pc = "spawn"
    /\ current_file = None
    /\ current_reader' = 0
    /\ reader_pos' = 0
    /\ pc' = "read_next_frame"
    /\ UNCHANGED <<cmd_queue, sent, sender_alive, cmd, cmd_no, child, current_process,
                   session, procs, events>>
    /\ UNCHANGED detector

\* mutant of StoreSpawned: the process is kept, its standard output is not
StoreSpawned_no_reader(p) ==
    /\ current_reader' = 0
    /\ current_process' = p

\* what start_ffmpeg stores after cmd.spawn() returned Ok(child) as process p
StoreSpawned(p) ==
    /\ current_reader' = p
    /\ current_process' = p

\* current_reader = None; cmd.spawn() returns Ok: a new process, whose output
\* will be out bytes long
SpawnDecoder(out) ==
    /\ pc = "spawn"
    /\ current_file # None
    /\ reader_pos' = 0
    /\ IF to_str(current_file) = None
       THEN /\ pc' = "panicked"
            /\ current_reader' = 0
            /\ UNCHANGED <<current_process, procs>>
       ELSE /\ procs' = Append(procs, [state |-> "running", path |-> to_str(current_file),
                                       args_ss |-> SeekArgs(start_time), out |-> out,
                                       by |-> cmd_no])
            /\ StoreSpawned(Len(procs) + 1)
            /\ pc' = "read_next_frame"
    /\ UNCHANGED <<cmd_queue, sent, sender_alive, cmd, cmd_no, child, session, events>>
    /\ UNCHANGED detector

\* mutant of SpawnError: the spawn error is swallowed
SpawnError_swallowed == events

\* what start_ffmpeg does with Err(e) of cmd.spawn()
SpawnError == Append(events, Error(cmd_no, "FFmpeg spawn error"))

\* current_reader = None; cmd.spawn() returns Err
SpawnFails ==
    /\ pc = "spawn"
    /\ current_file # None
    /\ to_str(current_file) # None
    /\ current_reader' = 0
    /\ reader_pos' = 0
    /\ events' = SpawnError
    /\ pc' = "read_next_frame"
    /\ UNCHANGED <<cmd_queue, sent, sender_alive, cmd, cmd_no, child, current_process,
                   session, procs>>
    /\ UNCHANGED detector

\* -------------------------------------------- VideoWorker::read_next_frame
\* the guard of read_next_frame: it returns at once on a zero dimension
ZeroDims == width = 0 \/ height = 0

\* bytes of the stream not yet consumed
Available == procs[current_reader].out - reader_pos

\* mutant of ShortRead: a short read is reported as an error
ShortRead_reported == Append(events, Error(cmd_no, "read error"))

\* what read_next_frame does on Err of read_exact: nothing
ShortRead == events

\* mutant of read_exact: the bytes read stay on the stream
read_exact_peeks(pos, n) == pos

\* reader.read_exact(&mut buffer) returning Ok: the stream position after n
\* bytes were taken from position pos
read_exact(pos, n) == pos + n

\* overflow_checks: whether the build panics on integer overflow (the debug
\* profile does, the release profile wraps)
ReadNextFrame(overflow_checks) ==
    /\ pc = "read_next_frame"
    /\ IF ZeroDims \/ current_reader = 0
       THEN /\ Goto("recv")
            /\ UNCHANGED <<reader_pos, events>>
       ELSE IF Overflows(width, height) /\ overflow_checks
       THEN /\ Goto("panicked")
            /\ UNCHANGED <<reader_pos, events>>
       ELSE LET words == FrameWords(width, height)
            IN  /\ Goto("recv")
                /\ IF Available \div BytesPerPixel >= words
                   THEN /\ reader_pos' = read_exact(reader_pos, words * BytesPerPixel)
                        /\ events' =
                             IF from_raw(width, height, words * BytesPerPixel)
                             THEN Append(events, FrameReady(cmd_no, width, height,
                                                            current_reader, reader_pos))
                             ELSE events
                   ELSE /\ reader_pos' = procs[current_reader].out
                        /\ events' = ShortRead
    /\ UNCHANGED <<cmd_queue, sent, sender_alive, cmd_no, child, current_process,
                   current_reader, session, procs>>
    /\ UNCHANGED detector

\* ----------------------------------------------------------- find_position
\* bytes from one pixel to the next
px_for_col == 4
\* the bright threshold and the dark threshold
lim_max == 210
lim_min == 90
\* rows at the end of the buffer that the scan leaves out
SkippedRows == 20
\* rows the two lookahead loops run over: j < 14
LookaheadRows == 14

\* bytes from one row to the next: width * 4
px_for_row(w) == w * 4

\* usize::saturating_sub
saturating_sub(a, b) == IF a > b THEN a - b ELSE 0

\* mutant of limit: only the rows of the lookahead are left out
limit_lookahead_only(d, w) == saturating_sub(Len(d), (LookaheadRows - 1) * px_for_row(w))

\* the end of the scan
limit(d, w) == saturating_sub(Len(d), SkippedRows * px_for_row(w))

\* data[idx]: the slice is indexed from 0, and an index outside it panics
InSlice(d, idx) == 0 <= idx /\ idx < Len(d)
Byte(d, idx) == d[idx + 1]

\* the outcome of a test: it holds, it fails, or evaluating it panicked
Yes == "yes"
No == "no"
Panic == "panic"

\* mutant of IsDark: the dark tests are left out
IsDark_untested(b) == TRUE

\* the tests of the four rules on one byte
IsBright(b) == b >= lim_max
IsDark(b) == ~(b >= lim_min)
IsVeryBright(b) == ~(b <= lim_max)
Holds(test, b) ==
    CASE test = "IsBright" -> IsBright(b)
      [] test = "IsDark" -> IsDark(b)
      [] test = "IsVeryBright" -> IsVeryBright(b)

\* One of the tests on the three colour bytes of the pixel at idx, joined by
\* && (or, for the negated tests, by ||): evaluated left to right up to the
\* first byte for which the test fails.
Channels(d, idx, test) ==
    IF ~InSlice(d, idx) THEN Panic
    ELSE IF ~Holds(test, Byte(d, idx)) THEN No
    ELSE IF ~InSlice(d, idx + 1) THEN Panic
    ELSE IF ~Holds(test, Byte(d, idx + 1)) THEN No
    ELSE IF ~InSlice(d, idx + 2) THEN Panic
    ELSE IF ~Holds(test, Byte(d, idx + 2)) THEN No
    ELSE Yes

\* the guards in front of the reads: if idx + 2 >= data.len() { continue / break }
CandidateInSlice(d, i) == ~(i + 2 >= Len(d))
RightInSlice(d, i) == ~(i + px_for_col + 2 >= Len(d))
BelowInSlice(d, idx) == ~(idx + 2 >= Len(d))
LeftInSlice(d, idx) == ~(idx + 2 >= Len(d))

\* mutant of HasLeft: the left neighbour of the first pixel is read
HasLeft_unchecked(base) == TRUE

\* the guard of the left lookahead: if base < px_for_col { break }
HasLeft(base) == ~(base < px_for_col)

\* the body of the valid_vertical loop for row j: Yes when it goes on to the
\* next row, No when it clears the flag and breaks
vertical_row(d, w, i, j) ==
    LET idx == i + j * px_for_row(w)
    IN  IF ~BelowInSlice(d, idx) THEN No
        ELSE Channels(d, idx, "IsVeryBright")

\* for j in 1..14: valid_vertical over the rows lo to hi - 1, in order.  The
\* break or panic of the first half stands; the second half runs only when
\* every row of the first went on.
RECURSIVE valid_vertical(_, _, _, _, _)
valid_vertical(d, w, i, lo, hi) ==
    IF lo >= hi THEN Yes
    ELSE IF hi = lo + 1 THEN vertical_row(d, w, i, lo)
    ELSE LET mid == (lo + hi) \div 2
             first == valid_vertical(d, w, i, lo, mid)
         IN  IF first # Yes THEN first ELSE valid_vertical(d, w, i, mid, hi)

\* the body of the valid_left loop for row j
left_row(d, w, i, j) ==
    LET base == i + j * px_for_row(w)
        idx == base - px_for_col
    IN  IF ~HasLeft(base) THEN No
        ELSE IF ~LeftInSlice(d, idx) THEN No
        ELSE Channels(d, idx, "IsDark")

\* for j in 0..14: valid_left over the rows lo to hi - 1, in order
RECURSIVE valid_left(_, _, _, _, _)
valid_left(d, w, i, lo, hi) ==
    IF lo >= hi THEN Yes
    ELSE IF hi = lo + 1 THEN left_row(d, w, i, lo)
    ELSE LET mid == (lo + hi) \div 2
             first == valid_left(d, w, i, lo, mid)
         IN  IF first # Yes THEN first ELSE valid_left(d, w, i, mid, hi)

\* the body of the scan loop for the candidate at byte offset i: Yes when it
\* reaches the return
Candidate(d, w, i) ==
    IF ~CandidateInSlice(d, i) THEN No
    ELSE LET bright == Channels(d, i, "IsBright")
         IN  IF bright # Yes THEN bright
             ELSE IF ~RightInSlice(d, i) THEN No
             ELSE LET right == Channels(d, i + px_for_col, "IsDark")
                  IN  IF right # Yes THEN right
                      ELSE LET below == valid_vertical(d, w, i, 1, LookaheadRows)
                           IN  IF below # Yes THEN below
                               ELSE valid_left(d, w, i, 0, LookaheadRows)

\* usize as f32: exact up to 2^24, rounded to 24 significant bits (ties to
\* even) above
RECURSIVE Ulp(_, _)
Ulp(n, u) == IF n \div u < Pow2(24) THEN u ELSE Ulp(n, u * 2)
as_f32(n) ==
    LET u == Ulp(n, 1)
        q == n \div u
        r == n % u
    IN  IF 2 * r > u \/ (2 * r = u /\ q % 2 = 1) THEN (q + 1) * u ELSE q * u

\* mutant of Coordinate: x is left in bytes
Coordinate_in_bytes(w, i) ==
    LET x == i % px_for_row(w)
        y == (i - x) \div px_for_row(w)
    IN  Some(as_f32(x), as_f32(y))

\* Some([(x / 4) as f32, y as f32])
Coordinate(w, i) ==
    LET x == i % px_for_row(w)
        y == (i - x) \div px_for_row(w)
    IN  Some(as_f32(x \div 4), as_f32(y))

\* for i in (0..limit).step_by(4): the iterations number lo to hi - 1, in
\* order (iteration k is the candidate at byte offset 4 * k).  What the first
\* half returns or panics with stands; the second half runs only when every
\* iteration of the first went on to the next.
RECURSIVE scan(_, _, _, _)
scan(d, w, lo, hi) ==
    IF lo >= hi THEN NoPosition
    ELSE IF hi = lo + 1
    THEN LET c == Candidate(d, w, 4 * lo)
         IN  IF c = Yes THEN Coordinate(w, 4 * lo)
             ELSE IF c = Panic THEN Panicked
             ELSE NoPosition
    ELSE LET mid == (lo + hi) \div 2
             first == scan(d, w, lo, mid)
         IN  IF first # NoPosition THEN first ELSE scan(d, w, mid, hi)

\* find_position(data, width, _height): the loop runs for the offsets 0, 4,
\* ... below limit, and None is returned after it
find_position(d, w) == scan(d, w, 0, (limit(d, w) + 3) \div 4)

\* a call of find_position on the buffer
FindPosition ==
    /\ position = Pending
    /\ position' = find_position(data, data_width)
    /\ UNCHANGED <<data, data_width, cmd_queue, sent, sender_alive, worker, procs, events>>

\* ------------------------------------------------------------ environment
\* a decoder process ends by itself once the worker has read all it wrote; it
\* stays in the process table until it is waited for
DecoderExits(p) ==
    /\ Running(p)
    /\ p = current_reader
    /\ reader_pos = procs[p].out
    /\ procs' = [procs EXCEPT ![p].state = "zombie"]
    /\ UNCHANGED <<cmd_queue, sent, sender_alive, worker, events>>
    /\ UNCHANGED detector

\* ---------------------------------------------------------- specification
WorkerStep ==
    \/ RecvCommand
    \/ RecvDisconnected
    \/ ProbePanics
    \/ ProbeSpawnFails
    \/ \E text \in StderrTexts(cmd.path) : ProbeRuns(text)
    \/ StartKill
    \/ StartWait
    \/ StartNoProcess
    \/ SpawnSkipped
    \/ \E out \in StreamLengths(width, height) : SpawnDecoder(out)
    \/ SpawnFails
    \/ \E overflow_checks \in BOOLEAN : ReadNextFrame(overflow_checks)

Next ==
    \/ \E c \in AppCommand : SendCommand(c)
    \/ DropSender
    \/ WorkerStep
    \/ \E p \in Pids : DecoderExits(p)

Spec == Init /\ [][Next]_vars

\* ------------------------------------------------ find_position: its inputs
\* Buffers of w pixels a row, h whole rows and tail bytes more, drawn as a
\* uniform background with, at most, one vertical bar of one pixel's width
\* and one byte set apart.  The fourth byte of every pixel is the alpha the
\* decoder writes for rgba.
MaxWidth == 12
MaxRows == 35
TailBytes == 3
Alpha == 255

\* the narrow widths, and two wide enough for a bar in column 10
Widths == {1, 2, 3, MaxWidth - 1, MaxWidth}
\* row counts around the rows the lookahead needs, the rows the scan leaves
\* out, and their sum
Rows ==
    {0, 1, LookaheadRows - 1, LookaheadRows, SkippedRows - 1, SkippedRows, SkippedRows + 1,
     SkippedRows + 2, SkippedRows + LookaheadRows - 1, SkippedRows + LookaheadRows, MaxRows}
Tails == {0, TailBytes, TailBytes + 1}
Levels == {0, lim_min - 1, lim_min, lim_max, lim_max + 1, 255}

\* columns a bar is drawn in: the first, the last, and column 10
BarColumns(w) == {0, w - 1, 10} \cap (0..(w - 1))

\* bar.rows = 0: no bar; patch.at = -1: no byte set apart
NoBar == [x |-> 0, y |-> 0, rows |-> 0, level |-> 0]
NoPatch == [at |-> 0 - 1, to |-> 0]

Bars(w) ==
    {NoBar} \cup [x : BarColumns(w), y : {0, 1}, rows : {LookaheadRows - 1, LookaheadRows},
                  level : {lim_max, 255}]

\* one colour byte set to a threshold: a byte of the bar's first pixel, of the
\* pixel after it, of the bar's pixel LookaheadRows - 1 rows down or of the
\* pixel before that one
Patches(w, bar) ==
    {[at |-> ((bar.y + dy) * w + bar.x + dx) * px_for_col + c, to |-> v] :
        dy \in {0, LookaheadRows - 1}, dx \in {0 - 1, 0, 1}, c \in 0..2, v \in {lim_min, lim_max}}

\* Patched bars are drawn in the buffers of SkippedRows + 2 whole rows, which
\* the scan covers two rows of.
Scenes(w, h, tail) ==
    [bg : Levels, bar : {NoBar}, patch : {NoPatch}]
      \cup [bg : {0, lim_min}, bar : Bars(w), patch : {NoPatch}]
      \cup IF h = SkippedRows + 2 /\ tail = 0
           THEN UNION {[bg : {0}, bar : {bar}, patch : Patches(w, bar)] :
                         bar \in {b \in Bars(w) : b.y = 0 /\ b.rows = LookaheadRows
                                                    /\ b.level = 255}}
           ELSE {}

PixelLevel(scene, x, y) ==
    IF x = scene.bar.x /\ scene.bar.y <= y /\ y < scene.bar.y + scene.bar.rows
    THEN scene.bar.level
    ELSE scene.bg

\* the buffer of a scene; k counts its bytes from 0
Render(w, h, tail, scene) ==
    [n \in 1..(px_for_row(w) * h + tail) |->
        LET k == n - 1
        IN  IF k = scene.patch.at THEN scene.patch.to
            ELSE IF k % px_for_col = px_for_col - 1 THEN Alpha
            ELSE PixelLevel(scene, (k \div px_for_col) % w, (k \div px_for_col) \div w)]

FindInit ==
    /\ WorkerInit
    /\ \E w \in Widths, h \in Rows, tail \in Tails :
         \E scene \in Scenes(w, h, tail) :
            /\ data = Render(w, h, tail, scene)
            /\ data_width = w
    /\ position = Pending

FindNext == FindPosition

FindSpec == FindInit /\ [][FindNext]_vars

\* ------------------------------------------------------------------ claims
\* the events of evs that were sent while the worker executed command number n
EventsIn(evs, n) == SelectSeq(evs, LAMBDA e : e.cmd = n)
EventsOf(n) == EventsIn(events, n)
Types(es) == [i \in DOMAIN es |-> es[i].type]
\* the processes of ps spawned while the worker executed command number n
SpawnedIn(ps, n) == {p \in DOMAIN ps : ps[p].by = n}
SpawnedBy(n) == SpawnedIn(procs, n)
\* command number n has been executed to its end
Completed(n) == n < cmd_no \/ (n = cmd_no /\ pc \in {"recv", "exited"})
\* a frame of w x h pixels, in bytes; defined when the product fits 32 bits
FrameBytes(w, h) == w * h * 4

\* C1: at every moment at most one decoder process spawned by start_ffmpeg is
\* in the process table, and it is the newest one: every process of an earlier
\* start has been killed and reaped before the next one is spawned, so when a
\* frame read begins the only process that can be running is the current one.
C1_AtMostOneDecoderAlive ==
    /\ Cardinality({p \in Pids : Unreaped(p)}) <= 1
    /\ \A p \in Pids : Unreaped(p) => p = Len(procs)
    /\ pc = "read_next_frame" => \A p \in Pids : Running(p) => p = current_process

\* C1 witness: a second stream has been started while the first was live; the
\* first process is reaped and the second runs, before its first frame read.
C1_Witness ==
    /\ Len(procs) = 2
    /\ procs[1].state = "reaped"
    /\ Running(2)
    /\ current_process = 2
    /\ pc = "read_next_frame"

\* C2: a LoadFile whose probe succeeds sends Metadata first and exactly once,
\* then starts the decoder without a seek offset, then reads one frame; once
\* it is complete its events are Metadata followed, for a decoder that was
\* spawned and wrote at least one whole frame, by exactly one FrameReady (the
\* frame at offset 0 of the new process), and by no FrameReady otherwise.
C2_LoadFileSequence ==
    /\ (cmd.type = "LoadFile"
          /\ pc \in {"start_ffmpeg", "start_wait", "spawn", "read_next_frame"})
        => /\ EventsOf(cmd_no) # << >>
           /\ EventsOf(cmd_no)[1] = Metadata(cmd_no, duration, width, height)
           /\ pc # "read_next_frame" => SpawnedBy(cmd_no) = {}
    /\ \A n \in 1..cmd_no :
         LET es == EventsOf(n)
         IN  /\ \A i \in DOMAIN es : es[i].type = "Metadata" => i = 1
             /\ (es # << >> /\ es[1].type = "Metadata") =>
                   LET w == es[1].width
                       h == es[1].height
                       frames == SelectSeq(es, LAMBDA e : e.type = "FrameReady")
                       healthy == \E p \in SpawnedBy(n) :
                                     ~Overflows(w, h) /\ procs[p].out >= FrameBytes(w, h)
                   IN  /\ Len(frames) <= 1
                       /\ \A p \in SpawnedBy(n) : procs[p].args_ss = << >>
                       /\ Cardinality(SpawnedBy(n)) <= 1
                       /\ Completed(n) =>
                            IF healthy
                            THEN /\ Types(es) = <<"Metadata", "FrameReady">>
                                 /\ es[2].pid \in SpawnedBy(n)
                                 /\ es[2].from = 0
                                 /\ es[2].width = w /\ es[2].height = h
                            ELSE frames = << >>

\* C2 witness: two LoadFile commands in a row, each complete with one Metadata
\* and one FrameReady; the first load's process is reaped.
C2_Witness ==
    /\ cmd_no = 2
    /\ pc = "recv"
    /\ Types(events) = <<"Metadata", "FrameReady", "Metadata", "FrameReady">>
    /\ events[2].cmd = 1
    /\ events[3].cmd = 2
    /\ procs[1].state = "reaped"

\* a whole frame of the session's size is waiting on the live stream
FullFrameAvailable ==
    /\ width > 0 /\ height > 0
    /\ current_reader # 0
    /\ ~Overflows(width, height)
    /\ Available >= FrameBytes(width, height)

\* C3: a Step goes from the receive straight to one read_next_frame and back;
\* that read sends at most one event, a FrameReady, and sends it whenever a
\* whole frame is available on the live stream of a valid session; it spawns
\* and kills nothing and leaves the path, width, height and duration alone.
C3_StepReadsOnce ==
    [][ /\ (pc = "recv" /\ cmd_no' # cmd_no /\ cmd_queue[1].type = "Step")
            => /\ pc' = "read_next_frame"
               /\ cmd'.type = "Step"
               /\ UNCHANGED <<session, stream, procs, events>>
        /\ (cmd.type = "Step" /\ pc' # pc)
            => /\ pc = "read_next_frame"
               /\ pc' \in {"recv", "panicked"}
               /\ UNCHANGED <<session, procs, current_process, current_reader, child>>
               /\ \/ events' = events
                  \/ events' = Append(events, FrameReady(cmd_no, width, height,
                                                         current_reader, reader_pos))
               /\ FullFrameAvailable => (events' # events /\ pc' = "recv")
      ]_vars

\* C3 witness: a Step, which spawned nothing, has just sent a frame of the
\* stream that an earlier command started.
C3_Witness ==
    /\ pc = "recv"
    /\ cmd_no >= 2
    /\ SpawnedBy(cmd_no) = {}
    /\ Types(EventsOf(cmd_no)) = <<"FrameReady">>

\* the worker's step that ends a Seek: its frame read
SeekDone == cmd.type = "Seek" /\ pc = "read_next_frame" /\ pc' = "recv"

\* C4: when a Seek(t) is complete the worker is where start(current path, t)
\* followed by one frame read leaves it.  With no file loaded nothing is
\* spawned and nothing is sent.  With a file loaded every earlier process is
\* reaped and either one new process, spawned for the current file with -ss t
\* (no -ss when t is not positive), is the live process and reader, and the
\* command sent one FrameReady (the frame at offset 0 of that process) if the
\* process wrote a whole frame and nothing otherwise; or the spawn failed, no
\* process is live, and the command sent the spawn Error alone.
C4_SeekIsStartThenRead ==
    [][ SeekDone =>
         LET es == EventsIn(events', cmd_no)
             new == SpawnedIn(procs', cmd_no)
             cp == current_process'
         IN  /\ \A p \in DOMAIN procs' \ new : procs'[p].state = "reaped"
             /\ UNCHANGED session
             /\ IF current_file = None
                THEN es = << >> /\ new = {} /\ cp = 0 /\ current_reader' = 0
                ELSE \/ /\ new = {}
                        /\ cp = 0 /\ current_reader' = 0
                        /\ es = <<Error(cmd_no, "FFmpeg spawn error")>>
                     \/ /\ new = {cp}
                        /\ current_reader' = cp
                        /\ procs'[cp].path = current_file
                        /\ procs'[cp].args_ss =
                             (IF cmd.time > 0 THEN <<cmd.time>> ELSE << >>)
                        /\ IF ~Overflows(width, height)
                              /\ procs'[cp].out >= FrameBytes(width, height)
                           THEN /\ es = <<FrameReady(cmd_no, width, height, cp, 0)>>
                                /\ reader_pos' = FrameBytes(width, height)
                           ELSE es = << >>
      ]_vars

\* C4 witness: a Seek to a positive time, on a loaded file with a live process,
\* is complete: the old process is reaped, the new one was started with -ss
\* and its first frame was sent.
C4_Witness ==
    /\ pc = "recv"
    /\ Len(procs) = 2
    /\ procs[1].state = "reaped"
    /\ current_process = 2
    /\ procs[2].args_ss # << >>
    /\ procs[2].by = cmd_no
    /\ Types(EventsOf(cmd_no)) = <<"FrameReady">>

\* C5: the worker receives the commands in the order they were sent (the k-th
\* command it executes is the k-th one sent, and the queue holds the following
\* ones in order), it receives a command only while it is idle in recv, and
\* the events on the event queue are ordered by the command that sent them.
C5_CommandsInOrder ==
    /\ [](/\ (cmd # NoCommand => cmd.id = cmd_no)
          /\ \A i \in DOMAIN cmd_queue : cmd_queue[i].id = cmd_no + i
          /\ \A i, j \in DOMAIN events : i < j => events[i].cmd <= events[j].cmd
          /\ \A i \in DOMAIN events : events[i].cmd \in 1..cmd_no)
    /\ [][ /\ cmd_no' # cmd_no =>
                /\ pc = "recv" /\ cmd = NoCommand
                /\ cmd_no' = cmd_no + 1
                /\ cmd_queue # << >> /\ cmd_queue[1].id = cmd_no'
                /\ cmd_queue' = Tail(cmd_queue)
           /\ (pc # "recv" /\ pc' # "recv") => cmd' = cmd
           /\ Len(events') > Len(events) => (pc # "recv" /\ cmd_no' = cmd_no)
       ]_vars

\* C5 witness: the second and third command are both complete, each has sent
\* events, and they were sent while the worker was busy with the first.
C5_Witness ==
    /\ cmd_no = 3
    /\ pc = "recv"
    /\ EventsOf(1) # << >>
    /\ EventsOf(2) # << >>
    /\ EventsOf(3) # << >>

\* the worker's step that ends load_file in its Err arm: it leaves load_file
\* without sending Metadata and without panicking
ProbeFailed ==
    /\ pc = "load_file"
    /\ pc' \notin {"load_file", "panicked"}
    /\ ~(Len(events') > Len(events) /\ events'[Len(events')].type = "Metadata")

\* C6: a LoadFile whose probe fails sends exactly one Error and returns: the
\* path, width, height and duration, the process, the reader and the process
\* table stay as they were, and the command never sends anything else nor
\* spawns a process.
C6_ProbeFailureIsOneError ==
    /\ [][ProbeFailed =>
            /\ pc' = "recv"
            /\ Len(events') = Len(events) + 1
            /\ SubSeq(events', 1, Len(events)) = events
            /\ events'[Len(events')].type = "Error"
            /\ events'[Len(events')].cmd = cmd_no
            /\ UNCHANGED <<session, stream, procs, child>>
       ]_vars
    /\ [](\A n \in 1..cmd_no :
            LET es == EventsOf(n)
            IN  (es # << >> /\ es[1].type = "Error" /\ es[1].msg # "FFmpeg spawn error")
                  => (Len(es) = 1 /\ SpawnedBy(n) = {}))

\* C6 witness: a LoadFile on a loaded session failed its probe and is complete;
\* its one event is the Error and the earlier session and process are in place.
C6_Witness ==
    /\ pc = "recv"
    /\ cmd_no = 2
    /\ EventsOf(2) = <<Error(2, "Could not parse video metadata")>>
    /\ current_file # None
    /\ current_process = 1

\* the worker's step in which cmd.spawn() fails
SpawnFailed ==
    /\ pc = "spawn"
    /\ pc' = "read_next_frame"
    /\ current_file # None
    /\ procs' = procs

\* C7: a failed spawn sends exactly one Error and leaves no live process and
\* no reader, with every process of an earlier start reaped; while there is no
\* reader a frame read sends nothing and returns to recv, and only the spawn
\* of a later LoadFile or Seek brings a reader back.
C7_SpawnFailureLeavesNoProcess ==
    [][ /\ SpawnFailed =>
              /\ events' = Append(events, Error(cmd_no, "FFmpeg spawn error"))
              /\ current_process' = 0
              /\ current_reader' = 0
              /\ \A p \in Pids : procs'[p].state = "reaped"
        /\ (pc = "read_next_frame" /\ pc' # pc /\ current_reader = 0) =>
              /\ pc' = "recv"
              /\ events' = events
              /\ current_reader' = 0 /\ current_process' = 0
        /\ (current_reader = 0 /\ current_reader' # 0) =>
              /\ pc = "spawn"
              /\ cmd.type \in {"LoadFile", "Seek"}
              /\ current_process' = current_reader'
      ]_vars

\* C7 witness: a file was loaded and its decoder ran; a Seek then failed to
\* spawn, leaving the Error and no process; a Step is now about to read.
C7_Witness ==
    /\ pc = "read_next_frame"
    /\ cmd.type = "Step"
    /\ cmd_no = 3
    /\ Len(procs) = 1
    /\ current_process = 0
    /\ current_reader = 0
    /\ EventsOf(2) = <<Error(2, "FFmpeg spawn error")>>

\* the worker's step that executes read_next_frame
FrameRead == pc = "read_next_frame" /\ pc' # pc

\* C8: a frame read that finds no reader, or fewer than width * height * 4
\* bytes on the stream, sends no event at all; and once no whole frame is
\* available none becomes available again before a LoadFile stores new
\* dimensions or a LoadFile or Seek spawns a new process, so every Step in
\* between sends nothing.
C8_ShortReadIsSilent ==
    [][ /\ (FrameRead /\ ~FullFrameAvailable) => events' = events
        /\ (FrameRead /\ events' # events) =>
              /\ events' = Append(events, FrameReady(cmd_no, width, height,
                                                     current_reader, reader_pos))
              /\ reader_pos' = reader_pos + FrameBytes(width, height)
        /\ (~FullFrameAvailable /\ FullFrameAvailable') =>
              /\ cmd.type \in {"LoadFile", "Seek"}
              /\ pc \in {"load_file", "spawn"}
      ]_vars

\* C8 witness: a Seek started a decoder that wrote less than one frame (the
\* target lies past the end of the clip); its read was short and sent nothing,
\* the stream is at its end, and a Step is about to read from it.
C8_Witness ==
    /\ pc = "read_next_frame"
    /\ cmd.type = "Step"
    /\ cmd_no = 3
    /\ EventsOf(2) = << >>
    /\ SpawnedBy(2) = {current_reader}
    /\ procs[current_reader].args_ss # << >>
    /\ procs[current_reader].out = PartialBytes
    /\ reader_pos = procs[current_reader].out

\* C9: the worker leaves its loop only when the command channel is closed and
\* empty: it never stops on an error, so every command sent is received.
C9_WorkerNeverExitsOnError ==
    /\ pc # "panicked"
    /\ pc = "exited" => (~sender_alive /\ cmd_queue = << >>)

\* C10: whenever a file path is stored or a process or reader is held, the
\* stored width and height are positive; and a frame read with a zero width
\* or height consumes nothing and sends nothing.
C10_SessionHasPositiveDims ==
    /\ []((current_file # None \/ current_process # 0 \/ current_reader # 0 \/ child # 0)
            => (width > 0 /\ height > 0))
    /\ [][(FrameRead /\ (width = 0 \/ height = 0)) =>
            (pc' = "recv" /\ UNCHANGED <<reader_pos, events, procs, stream, session>>)
       ]_vars

\* C10 witness: a file whose diagnostics give a zero width was refused, a frame
\* read then ran with zero dimensions, and a later LoadFile created a session
\* with a live reader.
C10_Witness ==
    /\ cmd_no = 3
    /\ pc = "recv"
    /\ EventsOf(1) = <<Error(1, "Could not parse video metadata")>>
    /\ EventsOf(2) = << >>
    /\ EventsOf(3) # << >>
    /\ current_file # None
    /\ current_reader # 0
    /\ width > 0 /\ height > 0

\* the frames sent so far out of the output of process p, in order
FramesOf(evs, p) == SelectSeq(evs, LAMBDA e : e.type = "FrameReady" /\ e.pid = p)

\* C11: framing is positional.  The frames read from one decoder process all
\* have the size of one session, and the k-th of them (k = 0, 1, ...) is the
\* bytes [k*N, (k+1)*N) of that process's output, N = width * height * 4; the
\* read that sends it starts where the previous frame ended and leaves the
\* stream N bytes further, and no other step moves the stream position of a
\* reader that stays in place except a short read, after which no frame
\* follows.
C11_FramingIsPositional ==
    /\ [](\A p \in Pids :
            LET fs == FramesOf(events, p)
            IN  \A k \in DOMAIN fs :
                  /\ fs[k].width = fs[1].width /\ fs[k].height = fs[1].height
                  /\ ~Overflows(fs[k].width, fs[k].height)
                  /\ fs[k].from = (k - 1) * FrameBytes(fs[k].width, fs[k].height)
                  /\ fs[k].from + FrameBytes(fs[k].width, fs[k].height) <= procs[p].out)
    /\ [][ /\ Len(events') > Len(events) /\ events'[Len(events')].type = "FrameReady"
              => /\ events' = Append(events, FrameReady(cmd_no, width, height,
                                                        current_reader, reader_pos))
                 /\ reader_pos = Len(FramesOf(events, current_reader))
                                    * FrameBytes(width, height)
                 /\ reader_pos' = reader_pos + FrameBytes(width, height)
                 /\ current_reader' = current_reader
           /\ (current_reader # 0 /\ current_reader' = current_reader
                 /\ reader_pos' # reader_pos)
              => \/ Len(events') > Len(events)
                 \/ /\ reader_pos' = procs[current_reader].out
                    /\ reader_pos' - reader_pos < FrameBytes(width, height)
       ]_vars

\* C11 witness: two frames were read from one process, by a LoadFile and a
\* Step; the second begins where the first ends.
C11_Witness ==
    /\ pc = "recv"
    /\ current_reader # 0
    /\ Len(FramesOf(events, current_reader)) = 2
    /\ FramesOf(events, current_reader)[2].from = FrameBytes(width, height)
    /\ reader_pos = 2 * FrameBytes(width, height)

\* a string of at least three digits that denotes a positive number of 32 bits
DenotesPositive(ds) ==
    /\ Len(ds) >= 3
    /\ \E i \in DOMAIN ds : ds[i] # 0
    /\ LET first == CHOOSE i \in DOMAIN ds : ds[i] # 0 /\ \A k \in 1..(i - 1) : ds[k] = 0
           digits == SubSeq(ds, first, Len(ds))
       IN  \/ Len(digits) < 10
           \/ Len(digits) = 10 /\ DigitsLeq(digits, U32MaxDigits)

\* the number a digit string denotes
RECURSIVE DecimalValue(_)
DecimalValue(ds) ==
    IF ds = << >> THEN 0
    ELSE ds[Len(ds)] + 10 * DecimalValue(SubSeq(ds, 1, Len(ds) - 1))

\* width and height can both be parsed from a video-stream descriptor of text
DimensionsParse(text) ==
    /\ text.video # NoVideo
    /\ DenotesPositive(text.video[1])
    /\ DenotesPositive(text.video[2])

\* the step in which load_file has the result of a probe that ran
ProbeReturned ==
    /\ pc = "load_file"
    /\ Len(events') = Len(events) + 1
    /\ events'[Len(events')].msg # "probe: io error"

\* C16: a probe that ran fails exactly when the text has no video-stream
\* descriptor from which width and height parse as positive numbers; a text
\* without a Duration line gives duration 0 with the parsed width and height.
\* load_file then sends that Metadata and goes on to the start, and once the
\* command is complete it has spawned the decoder or reported that it could
\* not, and has sent the first frame if the decoder wrote one.
C16_ProbeFailsOnlyOnDimensions ==
    /\ [](\A path \in Paths : \A text \in StderrTexts(path) :
            LET r == probe_file(text)
            IN  /\ r.ok <=> DimensionsParse(text)
                /\ r.ok => /\ r.width = DecimalValue(text.video[1])
                           /\ r.height = DecimalValue(text.video[2])
                           /\ text.dur = NoDuration => r.duration = <<0, << >> >>)
    /\ [][ProbeReturned =>
            \E text \in StderrTexts(cmd.path) :
               IF DimensionsParse(text)
               THEN /\ events'[Len(events')] =
                         Metadata(cmd_no,
                                  IF text.dur = NoDuration THEN <<0, << >> >>
                                  ELSE ProbeDuration(text),
                                  DecimalValue(text.video[1]), DecimalValue(text.video[2]))
                    /\ pc' = "start_ffmpeg"
                    /\ width' = DecimalValue(text.video[1])
                    /\ height' = DecimalValue(text.video[2])
               ELSE /\ events'[Len(events')] = Error(cmd_no, "Could not parse video metadata")
                    /\ pc' = "recv"
       ]_vars
    /\ [](\A n \in 1..cmd_no :
            LET es == EventsOf(n)
            IN  (Completed(n) /\ es # << >> /\ es[1].type = "Metadata"
                   /\ es[1].duration = <<0, << >> >>)
                 => \/ /\ SpawnedBy(n) = {}
                       /\ Types(es) = <<"Metadata", "Error">>
                    \/ \E p \in SpawnedBy(n) :
                         /\ procs[p].out >= FrameBytes(es[1].width, es[1].height)
                               => es = <<es[1], FrameReady(n, es[1].width, es[1].height, p, 0)>>
                         /\ procs[p].out < FrameBytes(es[1].width, es[1].height)
                               => es = <<es[1]>>)

\* C16 witness: a file whose diagnostics hold no usable video descriptor was
\* refused, and a file whose diagnostics hold no Duration line was loaded with
\* duration 0 and its first frame was sent.
C16_Witness ==
    /\ pc = "recv"
    /\ cmd_no = 2
    /\ EventsOf(1) = <<Error(1, "Could not parse video metadata")>>
    /\ Len(EventsOf(2)) = 2
    /\ EventsOf(2)[1] = Metadata(2, <<0, << >> >>, 128, 100)
    /\ EventsOf(2)[2].type = "FrameReady"

\* C18: every process the worker has given up (it is neither its current
\* process nor the one start_ffmpeg is replacing) has been terminated and
\* reaped, and once the worker has left its loop because the command channel
\* is closed no decoder process is left that is not reaped.
C18_NoProcessLeftBehind ==
    /\ \A p \in Pids : p \notin {current_process, child} => procs[p].state = "reaped"
    /\ pc = "exited" => \A p \in Pids : procs[p].state = "reaped"

\* C19: whenever read_next_frame computes the frame size, width * height * 4
\* fits 32 bits, so that the number of bytes it requests is the product.
C19_FrameSizeNeverWraps ==
    (pc = "read_next_frame" /\ ~ZeroDims /\ current_reader # 0)
      => /\ ~Overflows(width, height)
         /\ FrameWords(width, height) * BytesPerPixel = FrameBytes(width, height)

\* the last command completed was a LoadFile whose probe failed
AfterFailedLoad ==
    /\ events # << >>
    /\ events[Len(events)].cmd = cmd_no - 1
    /\ events[Len(events)].type = "Error"
    /\ events[Len(events)].msg # "FFmpeg spawn error"

\* C20: a LoadFile whose probe fails changes nothing but the event queue: from
\* its receipt to its return the path, width, height and duration, the
\* process, the reader, its position and the process table stay as they were;
\* and a Step received next, with a whole frame waiting on the stream of the
\* file loaded before, sends that frame: the next one of that stream.
C20_FailedLoadKeepsSession ==
    [][ /\ (pc = "recv" /\ pc' = "load_file")
              => UNCHANGED <<session, stream, child, procs, events>>
        /\ ProbeFailed
              => /\ pc' = "recv"
                 /\ UNCHANGED <<session, stream, child, procs>>
        /\ (FrameRead /\ cmd.type = "Step" /\ AfterFailedLoad /\ FullFrameAvailable)
              => /\ events' = Append(events, FrameReady(cmd_no, width, height,
                                                        current_reader, reader_pos))
                 /\ procs[current_reader].path = current_file
                 /\ procs[current_reader].by < cmd_no - 1
                 /\ reader_pos = Len(FramesOf(events, current_reader))
                                    * FrameBytes(width, height)
      ]_vars

\* C20 witness: a file was loaded and its first frame sent, a second LoadFile
\* failed its probe, and the Step after it has sent the second frame of the
\* first file's stream.
C20_Witness ==
    /\ pc = "recv"
    /\ cmd_no = 3
    /\ Types(events) = <<"Metadata", "FrameReady", "Error", "FrameReady">>
    /\ events[3] = Error(2, "Could not parse video metadata")
    /\ events[4] = FrameReady(3, width, height, 1, FrameBytes(width, height))
    /\ current_file = "small.mp4"

\* ------------------------------------------------- claims on find_position
\* The buffer as a picture: data_width pixels a row, the pixel in column x of
\* row y at byte offset (y * data_width + x) * 4.  A pixel is in the picture
\* when its column is one of the row's and its three colour bytes are in the
\* buffer.
OffsetOf(x, y) == (y * data_width + x) * 4
InPicture(x, y) ==
    /\ 0 <= x /\ x < data_width
    /\ 0 <= y
    /\ OffsetOf(x, y) + 2 < Len(data)
Colours(x, y) == {data[OffsetOf(x, y) + c] : c \in 1..3}

\* the four rules for the candidate pixel in column x of row y
CoreIsBright(x, y) == \A b \in Colours(x, y) : b >= 210
RightIsDark(x, y) == InPicture(x + 1, y) /\ \A b \in Colours(x + 1, y) : b < 90
BarBelow(x, y) ==
    \A j \in 1..13 : InPicture(x, y + j) /\ \A b \in Colours(x, y + j) : b > 210
LeftIsDark(x, y) ==
    \A j \in 0..13 : InPicture(x - 1, y + j) /\ \A b \in Colours(x - 1, y + j) : b < 90
IsMarker(x, y) ==
    /\ InPicture(x, y)
    /\ CoreIsBright(x, y) /\ RightIsDark(x, y) /\ BarBelow(x, y) /\ LeftIsDark(x, y)

\* the byte offsets of the pixels outside the last 20 rows that are markers
MarkerOffsets ==
    {i \in 0..(Len(data) - 20 * 4 * data_width - 1) :
        /\ i % 4 = 0
        /\ IsMarker((i % (4 * data_width)) \div 4, i \div (4 * data_width))}

\* the least member of a non-empty set of numbers
Least(S) == CHOOSE i \in S : \A k \in S : i <= k

\* C12: find_position returns the coordinate of the first pixel in scan order,
\* outside the last 20 rows, for which the four rules hold (bright core, dark
\* pixel to the right, 13 very bright pixels below, 14 dark pixels one column
\* to the left), and none exactly when there is no such pixel.
C12_FirstMarkerInScanOrder ==
    position # Pending =>
        position = IF MarkerOffsets = {} THEN NoPosition
                   ELSE LET i == Least(MarkerOffsets)
                        IN  Some((i % (4 * data_width)) \div 4, i \div (4 * data_width))

\* scenario B: the picture is (0,0,0,_) everywhere except for (255,255,255,_)
\* in column 10 of its first 14 rows, and it reaches past the 20 rows the scan
\* leaves out, so that the bar's first pixel is scanned
ScenarioB ==
    /\ data_width > 10
    /\ Len(data) > 20 * 4 * data_width + 4 * 10
    /\ \A k \in 0..(Len(data) - 1) :
         k % 4 # 3 =>
           data[k + 1] = IF (k \div 4) % data_width = 10 /\ k \div (4 * data_width) < 14
                         THEN 255 ELSE 0

\* C13: on the picture of scenario B find_position returns the coordinate
\* (10, 0).
C13_ScenarioBFindsMarker ==
    (position # Pending /\ ScenarioB) => position = Some(10, 0)

\* C13 witness: find_position has run on a scenario B picture of 12 pixels a
\* row, where the bar has a dark column on either side.
C13_Witness ==
    /\ position # Pending
    /\ ScenarioB
    /\ data_width = 12
    /\ Len(data) >= 34 * 4 * data_width

\* every colour byte of the buffer has the same value
Uniform == \A k \in 0..(Len(data) - 1) : k % 4 # 3 => data[k + 1] = data[1]

\* C14: on a buffer whose pixels all have the same colour, black, bright or
\* in between, find_position returns none.
C14_UniformBufferHasNoMarker ==
    (position # Pending /\ Uniform) => position = NoPosition

\* C14 witness: find_position has run on a uniformly bright buffer and on one
\* it scans 15 rows of.
C14_Witness ==
    /\ position # Pending
    /\ Uniform
    /\ data_width = 12
    /\ Len(data) = 35 * 4 * data_width
    /\ data[1] = 255

\* C15 as claimed: on a buffer of fewer than 34 rows find_position returns
\* none.
C15_Under34RowsHasNoMarker ==
    (position # Pending /\ Len(data) < 34 * 4 * data_width) => position = NoPosition

\* C15, amended: on a buffer of at most 20 rows (the rows the scan leaves out)
\* find_position returns none, whatever the buffer holds.
C15_Under21RowsHasNoMarker ==
    (position # Pending /\ Len(data) <= 20 * 4 * data_width) => position = NoPosition

\* C15 witness: find_position has run on a buffer of 20 rows that holds a
\* whole marker at column 10 of row 0.
C15_Witness ==
    /\ position # Pending
    /\ data_width = 12
    /\ Len(data) = 20 * 4 * data_width
    /\ IsMarker(10, 0)

\* C17: find_position ends with a coordinate or with none on every buffer, of
\* whatever length, and never reads outside it: a lookahead that would leave
\* the buffer rejects the candidate.
C17_NeverIndexesOutside ==
    position # Pending => position.kind \in {"Some", "None"}

\* C17 witness: find_position has run on a buffer whose length is no multiple
\* of 4 and whose first pixel passes the first three rules, so that the left
\* lookahead of that candidate starts in front of the buffer; the candidate was
\* rejected and the scan went on to the end.
C17_Witness ==
    /\ position = NoPosition
    /\ data_width >= 2
    /\ Len(data) % 4 # 0
    /\ Len(data) > 21 * 4 * data_width
    /\ CoreIsBright(0, 0) /\ RightIsDark(0, 0) /\ BarBelow(0, 0)

====
